---- MODULE Spec2Model ----
(***************************************************************************)
(* Thread-management core of ChibiOS/RT (os/rt/src/chthreads.c).           *)
(*                                                                         *)
(* One CPU.  Every API of chthreads.c runs between chSysLock() and         *)
(* chSysUnlock(), so each call is one atomic step of the running thread;   *)
(* a call that blocks (chThreadSuspendS, chThdWait, chThdSleepS) is two    *)
(* steps: the part up to chSchGoSleepS() and the part after it, which the  *)
(* thread executes, still inside the critical section, as soon as it is    *)
(* switched in again.  Debug checks and assertions are enabled: a failed   *)
(* chDbgCheck()/chDbgAssert() halts the system.                            *)
(***************************************************************************)
EXTENDS Integers, Sequences, FiniteSets, TLC

\* ---------------------------------------------------------------- bounds
\* Thread slots are 0..MaxThreads: 0 is the idle thread, 1 the main thread.
MaxThreads == 3
\* Priorities are 1..MaxPrio (HIGHPRIO is MaxPrio, IDLEPRIO is 1).
MaxPrio == 3
\* Messages (wake-up payloads, exit codes) are 0..MaxMsg.
MaxMsg == 1
\* Thread reference cells are 1..MaxCells.
MaxCells == 2
\* systime_t is TimeBits wide.
TimeBits == 3

\* ------------------------------------------------------------- constants
\* The null pointer; also "no value" in the history variables.
NULL == -2
IdleThread == 0
MainThread == 1
Thd == 0..MaxThreads
Cells == 1..MaxCells
Msgs == 0..MaxMsg
IDLEPRIO == 1
HIGHPRIO == MaxPrio
Prios == IDLEPRIO..HIGHPRIO
TimeMod == 2 ^ TimeBits
Times == 0..(TimeMod - 1)
TIME_IMMEDIATE == 0
TIME_INFINITE == TimeMod - 1
MSG_TIMEOUT == -1

CH_STATE_NONE == "NONE"
CH_STATE_READY == "READY"
CH_STATE_CURRENT == "CURRENT"
CH_STATE_WTSTART == "WTSTART"
CH_STATE_SUSPENDED == "SUSPENDED"
CH_STATE_SLEEPING == "SLEEPING"
CH_STATE_WTEXIT == "WTEXIT"
CH_STATE_FINAL == "FINAL"

\* A field that no code of the module has written.
UNINIT == -3
NoFrame == [fn |-> "none", tp |-> NULL]
NoFault == "none"
NoSleep == [until |-> NULL, finite |-> FALSE]
NoPos == [api |-> "none", pc |-> 0]
NoRet == [thd |-> NULL, fn |-> "none", tp |-> NULL, blk |-> FALSE, val |-> NULL]

\* ----------------------------------------------------------------- state
VARIABLES
  p_state,      \* thread_t.p_state, CH_STATE_NONE for a slot not yet created
  p_prio,       \* thread_t.p_prio, the effective priority
  p_realprio,   \* thread_t.p_realprio, the base priority (CH_CFG_USE_MUTEXES)
  p_terminate,  \* CH_FLAG_TERMINATE in thread_t.p_flags
  p_u,          \* thread_t.p_u: the union holding rdymsg and exitcode
  p_msg,        \* thread_t.p_msg, never written by this module
  p_waiting,    \* thread_t.p_waiting, the threads joined on this one
  p_refs,       \* thread_t.p_refs, the reference counter (CH_CFG_USE_DYNAMIC)
  rlist,        \* the Scheduler's ready list
  currp,        \* the running thread
  trp,          \* the thread reference cells
  frame,        \* per thread: the blocking call it is inside, and its tp
  retval,       \* the value the step just taken returned: caller, function, tp, value
  systime,      \* chVTGetSystemTimeX()
  vtdelta,      \* per thread: ticks left on its sleep timer, NULL if none
  halted,       \* a check or assertion failed
  h_exit,       \* history: the code each thread passed to chThdExit
  h_wake,       \* history: the payload of the resume that woke each thread
  h_arrival,    \* history: per thread, the callers of chThdWait in call order
  h_woken,      \* history: the threads the step just taken (an exit) readied, in order
  h_fault,      \* history: the function whose check or assertion failed
  h_sleep,      \* history: per sleeping thread, the time at which its sleep ends
  guard,        \* the Critical Section Guard is held (chSysLock)
  gpos,         \* per thread: the API function it is inside and the next operation
  gst,          \* per thread, for the guard: "none", "ready", "run", "blocked", "final"
  gfault        \* the operation that broke the discipline of the guard

vars == <<p_state, p_prio, p_realprio, p_terminate, p_u, p_msg, p_waiting, p_refs,
          rlist, currp, trp, frame, retval, systime, vtdelta, halted,
          h_exit, h_wake, h_arrival, h_woken, h_fault,
          h_sleep, guard, gpos, gst, gfault>>

guardVars == <<guard, gpos, gst, gfault>>
kernelVars == <<p_state, p_prio, p_realprio, p_terminate, p_u, p_msg, p_waiting, p_refs,
                rlist, currp, trp, frame, retval, systime, vtdelta, halted,
                h_exit, h_wake, h_arrival, h_woken, h_fault, h_sleep>>

tcbVars == <<p_state, p_prio, p_realprio, p_terminate, p_u, p_msg, p_waiting>>
histVars == <<h_exit, h_wake, h_arrival>>
timeVars == <<systime, vtdelta>>

\* ------------------------------------------------------------- scheduler
\* Position of the first element of rl satisfying P, Len(rl)+1 if none.
RECURSIVE FirstPos(_, _, _, _)
FirstPos(rl, prio, bound, strict) ==
  IF rl = <<>> THEN 1
  ELSE IF (strict /\ prio[Head(rl)] < bound) \/ (~strict /\ prio[Head(rl)] <= bound)
       THEN 1
       ELSE 1 + FirstPos(Tail(rl), prio, bound, strict)

InsertAt(rl, i, tp) == SubSeq(rl, 1, i - 1) \o <<tp>> \o SubSeq(rl, i, Len(rl))

\* Ready-list insertion behind the threads of the same priority.
InsertBehind(rl, tp, prio) == InsertAt(rl, FirstPos(rl, prio, prio[tp], TRUE), tp)

\* Ready-list insertion ahead of the threads of the same priority.
InsertAhead(rl, tp, prio) == InsertAt(rl, FirstPos(rl, prio, prio[tp], FALSE), tp)

Remove(rl, tp) == SelectSeq(rl, LAMBDA x : x /= tp)

SeqToSet(s) == {s[i] : i \in 1..Len(s)}

Created == {t \in Thd : p_state[t] /= CH_STATE_NONE}

\* The critical section is held across a switch: a thread switched in while
\* inside a blocking call finishes that call before anything else happens.
InCall == frame[currp].fn \notin {"none", "chThdRelease"}

\* A thread-context API call by the running application thread.
CanCall == ~halted /\ frame[currp].fn = "none" /\ currp /= IdleThread

\* Interrupt context: interrupts are masked inside the critical section.
CanInterrupt == ~halted /\ ~InCall

Halt(fn) ==
  /\ halted' = TRUE
  /\ UNCHANGED <<tcbVars, rlist, currp, trp, frame, timeVars, histVars>>
  /\ retval' = NoRet
  /\ h_woken' = <<>> /\ UNCHANGED guardVars
  /\ h_fault' = fn
  /\ UNCHANGED <<h_sleep, p_refs>>

\* ------------------------------------------------------------------ Init
Init ==
  /\ p_state = [t \in Thd |-> IF t = MainThread THEN CH_STATE_CURRENT
                              ELSE IF t = IdleThread THEN CH_STATE_READY
                              ELSE CH_STATE_NONE]
  /\ p_prio = [t \in Thd |-> IF t = MainThread THEN 2 ELSE IF t = IdleThread THEN IDLEPRIO ELSE 0]
  /\ p_realprio = p_prio
  /\ p_terminate = [t \in Thd |-> FALSE]
  /\ p_u = [t \in Thd |-> 0]
  /\ p_msg = [t \in Thd |-> UNINIT]
  /\ p_waiting = [t \in Thd |-> <<>>]
  /\ p_refs = [t \in Thd |-> IF t \in {IdleThread, MainThread} THEN 1 ELSE 0]
  /\ rlist = <<IdleThread>>
  /\ currp = MainThread
  /\ trp = [c \in Cells |-> NULL]
  /\ frame = [t \in Thd |-> NoFrame]
  /\ retval = NoRet
  /\ systime = 0
  /\ vtdelta = [t \in Thd |-> NULL]
  /\ halted = FALSE
  /\ h_exit = [t \in Thd |-> NULL]
  /\ h_wake = [t \in Thd |-> NULL]
  /\ h_arrival = [t \in Thd |-> <<>>]
  /\ h_woken = <<>>
  /\ h_fault = NoFault
  /\ h_sleep = [t \in Thd |-> NoSleep]
  /\ guard = FALSE
  /\ gpos = [t \in Thd |-> NoPos]
  /\ gst = [t \in Thd |-> IF t = MainThread THEN "run"
                          ELSE IF t = IdleThread THEN "ready" ELSE "none"]
  /\ gfault = NoFault

\* The kernel state the Scheduler works on.
Kernel == [st |-> p_state, rl |-> rlist, cur |-> currp]

Commit(K) ==
  /\ p_state' = K.st
  /\ rlist' = K.rl
  /\ currp' = K.cur

\* enqueue_ready: the thread becomes Ready, behind its priority peers.
chSchReadyI(K, tp, prio) ==
  [K EXCEPT !.st[tp] = CH_STATE_READY, !.rl = InsertBehind(K.rl, tp, prio)]

\* The running thread takes newstate and the first ready thread runs.
chSchGoSleepS(K, newstate) ==
  LET next == Head(K.rl) IN
  [st |-> [K.st EXCEPT ![K.cur] = newstate, ![next] = CH_STATE_CURRENT],
   rl |-> Tail(K.rl),
   cur |-> next]

\* Wake ntp and run it at once if it has the higher priority.
chSchWakeupS(K, ntp, prio) ==
  IF prio[ntp] <= prio[K.cur]
  THEN chSchReadyI(K, ntp, prio)
  ELSE LET K1 == chSchReadyI(K, K.cur, prio) IN
       [st |-> [K1.st EXCEPT ![ntp] = CH_STATE_CURRENT],
        rl |-> K1.rl,
        cur |-> ntp]

chSchDoRescheduleAhead(K, prio) ==
  LET next == Head(K.rl) IN
  [st |-> [K.st EXCEPT ![next] = CH_STATE_CURRENT, ![K.cur] = CH_STATE_READY],
   rl |-> InsertAhead(Tail(K.rl), K.cur, prio),
   cur |-> next]

chSchDoRescheduleBehind(K, prio) ==
  LET next == Head(K.rl) IN
  [st |-> [K.st EXCEPT ![next] = CH_STATE_CURRENT, ![K.cur] = CH_STATE_READY],
   rl |-> InsertBehind(Tail(K.rl), K.cur, prio),
   cur |-> next]

chSchIsRescRequiredI(K, prio) ==
  K.rl /= <<>> /\ prio[Head(K.rl)] > prio[K.cur]

\* reschedule_if_needed
chSchRescheduleS(K, prio) ==
  IF chSchIsRescRequiredI(K, prio) THEN chSchDoRescheduleAhead(K, prio) ELSE K

chSchDoYieldS(K, prio) ==
  IF K.rl /= <<>> /\ prio[Head(K.rl)] >= prio[K.cur]
  THEN chSchDoRescheduleBehind(K, prio)
  ELSE K

\* The waiters collection: insertion and removal, in arrival order.
list_insert(tp, tl) == Append(tl, tp)
list_remove_thread(tl) == Head(tl)
list_remove_rest(tl) == Tail(tl)
list_notempty(tl) == tl /= <<>>

\* ------------------------------------------------------------- creation
\* The lowest slot not yet used: the working area the caller passes.
FreeSlot == CHOOSE t \in Thd : p_state[t] = CH_STATE_NONE /\
                               \A u \in Thd : p_state[u] = CH_STATE_NONE => t <= u

\* _thread_init(tp, prio): the fields it writes.
thread_init(tp, prio) ==
  /\ p_prio' = [p_prio EXCEPT ![tp] = prio]
  /\ p_realprio' = [p_realprio EXCEPT ![tp] = prio]
  /\ p_terminate' = [p_terminate EXCEPT ![tp] = FALSE]
  /\ p_waiting' = [p_waiting EXCEPT ![tp] = <<>>]
  /\ p_refs' = [p_refs EXCEPT ![tp] = 1]

\* Mutation: the new thread is marked Ready at once.
thread_init_state_Mut == CH_STATE_READY

\* _thread_init: tp->p_state = CH_STATE_WTSTART.
thread_init_state == CH_STATE_WTSTART

\* What the callers of the creation functions pass: a working area or the
\* null pointer, its size, a priority, a thread function or the null pointer.
WorkingArea == 0
THD_WA_SIZE_0 == 2
ThreadFn == 0

\* Mutation: the check of the working area and of its size is missing.
CreateCheck_Mut(wsp, size, prio, pf) == (prio <= HIGHPRIO) /\ (pf /= NULL)

\* chThdCreateI: chDbgCheck((wsp != NULL) && (size >= THD_WA_SIZE(0)) &&
\*                         (prio <= HIGHPRIO) && (pf != NULL)).
CreateCheck(wsp, size, prio, pf) ==
  (wsp /= NULL) /\ (size >= THD_WA_SIZE_0) /\ (prio <= HIGHPRIO) /\ (pf /= NULL)

\* chSysLock(); chThdCreateI(wsp, size, prio, pf, arg); chSysUnlock();
chThdCreateI(wsp, size, prio, pf) ==
  /\ CanCall
  /\ \E t \in Thd : p_state[t] = CH_STATE_NONE
  /\ IF ~CreateCheck(wsp, size, prio, pf) THEN Halt("chThdCreateI")
     ELSE LET tp == FreeSlot IN
          /\ thread_init(tp, prio)
          /\ p_state' = [p_state EXCEPT ![tp] = thread_init_state]
          /\ UNCHANGED <<p_u, p_msg, rlist, currp, trp, frame, timeVars, halted,
                         histVars>>
          /\ retval' = NoRet
          /\ h_woken' = <<>> /\ UNCHANGED guardVars /\ UNCHANGED <<h_fault, h_sleep>>

\* chThdStartI's assertion: start is for a thread that awaits its start.
StartCheck(tp) == p_state[tp] = CH_STATE_WTSTART

\* Mutation: the thread is readied whatever its state.
chThdStart_Mut(tp) ==
  /\ CanCall
  /\ tp \in Created
  /\ Commit(chSchReadyI(Kernel, tp, p_prio))
  /\ UNCHANGED <<p_prio, p_realprio, p_terminate, p_u, p_msg, p_waiting, trp,
                 frame, timeVars, halted, histVars, h_fault, h_sleep, p_refs>>
  /\ retval' = NoRet
  /\ h_woken' = <<>> /\ UNCHANGED guardVars

\* chSysLock(); chThdStartI(tp); chSysUnlock(); with chThdStartI the
\* assertion and then chSchReadyI(tp).  No reschedule follows.
chThdStart(tp) ==
  /\ CanCall
  /\ tp \in Created
  /\ IF ~StartCheck(tp) THEN Halt("chThdStart")
     ELSE /\ Commit(chSchReadyI(Kernel, tp, p_prio))
          /\ UNCHANGED <<p_prio, p_realprio, p_terminate, p_u, p_msg, p_waiting, trp,
                         frame, timeVars, halted, histVars>>
          /\ retval' = NoRet
          /\ h_woken' = <<>> /\ UNCHANGED guardVars /\ UNCHANGED <<h_fault, h_sleep, p_refs>>

\* chThdCreateStatic: chThdCreateI then chSchWakeupS(tp, RDY_OK).
RDY_OK == 0
chThdCreateStatic(wsp, size, prio, pf) ==
  /\ CanCall
  /\ \E t \in Thd : p_state[t] = CH_STATE_NONE
  /\ IF ~CreateCheck(wsp, size, prio, pf) THEN Halt("chThdCreateStatic")
     ELSE LET tp == FreeSlot
              prio1 == [p_prio EXCEPT ![tp] = prio]
              K1 == [Kernel EXCEPT !.st[tp] = thread_init_state] IN
          /\ thread_init(tp, prio)
          /\ p_u' = [p_u EXCEPT ![tp] = RDY_OK]
          /\ Commit(chSchWakeupS(K1, tp, prio1))
          /\ UNCHANGED <<p_msg, trp, frame, timeVars, halted, histVars>>
          /\ retval' = NoRet
          /\ h_woken' = <<>> /\ UNCHANGED guardVars /\ UNCHANGED <<h_fault, h_sleep>>

\* ------------------------------------------------------------- priority
\* Mutation: the branch without priority inheritance.
SetPriorityPrio_Mut(prio, realprio, newprio) == newprio

\* Mutation: the test without "newprio > currp->p_prio".
SetPriorityPrio_Eq(prio, realprio, newprio) ==
  IF prio = realprio THEN newprio ELSE prio

\* Mutation: the effective priority is never written.
SetPriorityPrio_Keep(prio, realprio, newprio) == prio

\* chThdSetPriority: the effective priority after the call.
SetPriorityPrio(prio, realprio, newprio) ==
  IF (prio = realprio) \/ (newprio > prio) THEN newprio ELSE prio

\* Mutation: the branch without priority inheritance.
SetPriorityOld_Mut(prio, realprio) == prio

\* chThdSetPriority: the value returned (oldprio).
SetPriorityOld(prio, realprio) == realprio

chThdSetPriority(newprio) ==
  /\ CanCall
  /\ IF ~(newprio <= HIGHPRIO) THEN Halt("chThdSetPriority")
     ELSE LET prio1 == [p_prio EXCEPT ![currp] =
                          SetPriorityPrio(p_prio[currp], p_realprio[currp], newprio)] IN
          /\ p_prio' = prio1
          /\ p_realprio' = [p_realprio EXCEPT ![currp] = newprio]
          /\ retval' = [thd |-> currp, fn |-> "chThdSetPriority", tp |-> NULL, blk |-> FALSE,
                           val |-> SetPriorityOld(p_prio[currp], p_realprio[currp])]
          /\ Commit(chSchRescheduleS(Kernel, prio1))
          /\ UNCHANGED <<p_terminate, p_u, p_msg, p_waiting, trp, frame, timeVars,
                         halted, histVars>>
          /\ h_woken' = <<>> /\ UNCHANGED guardVars /\ UNCHANGED <<h_fault, h_sleep, p_refs>>

\* Priority inheritance (the mutex subsystem): a thread that owns a contended
\* resource is raised to the priority of the running thread that wants it.
MtxBoost(tp) ==
  /\ CanCall
  /\ tp /= currp
  /\ p_state[tp] \in {CH_STATE_READY, CH_STATE_SUSPENDED, CH_STATE_SLEEPING, CH_STATE_WTEXIT}
  /\ tp /= IdleThread
  /\ p_prio[tp] < p_prio[currp]
  /\ LET prio1 == [p_prio EXCEPT ![tp] = p_prio[currp]] IN
     /\ p_prio' = prio1
     /\ rlist' = IF p_state[tp] = CH_STATE_READY
                 THEN InsertBehind(Remove(rlist, tp), tp, prio1)
                 ELSE rlist
  /\ UNCHANGED <<p_state, p_realprio, p_terminate, p_u, p_msg, p_waiting, currp, trp,
                 frame, timeVars, halted, histVars>>
  /\ retval' = NoRet
  /\ h_woken' = <<>> /\ UNCHANGED guardVars /\ UNCHANGED <<h_fault, h_sleep, p_refs>>

\* The boosted owner gives the resource up: back to its base priority.
MtxUnboost ==
  /\ CanCall
  /\ p_prio[currp] > p_realprio[currp]
  /\ LET prio1 == [p_prio EXCEPT ![currp] = p_realprio[currp]] IN
     /\ p_prio' = prio1
     /\ Commit(chSchRescheduleS(Kernel, prio1))
  /\ UNCHANGED <<p_realprio, p_terminate, p_u, p_msg, p_waiting, trp, frame, timeVars,
                 halted, histVars>>
  /\ retval' = NoRet
  /\ h_woken' = <<>> /\ UNCHANGED guardVars /\ UNCHANGED <<h_fault, h_sleep, p_refs>>

\* ------------------------------------------------------ suspend / resume
\* The values a read of a field can give.
ReadField(x) == IF x = UNINIT THEN Msgs ELSE {x}

\* chThreadSuspendS up to chSchGoSleepS(CH_STATE_SUSPENDED).
chThreadSuspendS(c) ==
  /\ CanCall
  /\ IF trp[c] /= NULL THEN Halt("chThreadSuspendS")
     ELSE /\ trp' = [trp EXCEPT ![c] = currp]
          /\ Commit(chSchGoSleepS(Kernel, CH_STATE_SUSPENDED))
          /\ frame' = [frame EXCEPT ![currp] = [fn |-> "chThreadSuspendS", tp |-> NULL]]
          /\ h_wake' = [h_wake EXCEPT ![currp] = NULL]
          /\ UNCHANGED <<p_prio, p_realprio, p_terminate, p_u, p_msg, p_waiting,
                         timeVars, halted, h_exit, h_arrival>>
          /\ retval' = NoRet
          /\ h_woken' = <<>> /\ UNCHANGED guardVars /\ UNCHANGED <<h_fault, h_sleep, p_refs>>

\* The slot chThreadSuspendS returns: chThdGetSelfX()->p_msg.
SuspendResult(tp) == ReadField(p_msg[tp])

\* chThreadSuspendS after chSchGoSleepS: return chThdGetSelfX()->p_msg.
chThreadSuspendS_return ==
  /\ ~halted
  /\ frame[currp].fn = "chThreadSuspendS"
  /\ \E v \in SuspendResult(currp) :
       retval' = [thd |-> currp, fn |-> "chThreadSuspendS", tp |-> NULL, blk |-> TRUE,
                  val |-> v]
  /\ frame' = [frame EXCEPT ![currp] = NoFrame]
  /\ h_wake' = [h_wake EXCEPT ![currp] = NULL]
  /\ UNCHANGED <<tcbVars, rlist, currp, trp, timeVars, halted, h_exit, h_arrival>>
  /\ h_woken' = <<>> /\ UNCHANGED guardVars /\ UNCHANGED <<h_fault, h_sleep, p_refs>>

\* Mutation: the wake-up of chThreadResumeS, which reschedules.
chThreadResumeI_Mut(c, msg) ==
  /\ CanInterrupt
  /\ IF trp[c] = NULL THEN UNCHANGED vars
     ELSE IF p_state[trp[c]] /= CH_STATE_SUSPENDED THEN Halt("chThreadResumeI")
     ELSE LET tp == trp[c] IN
          /\ p_u' = [p_u EXCEPT ![tp] = msg]
          /\ Commit(chSchWakeupS(Kernel, tp, p_prio))
          /\ trp' = [trp EXCEPT ![c] = NULL]
          /\ h_wake' = [h_wake EXCEPT ![tp] = msg]
          /\ UNCHANGED <<p_prio, p_realprio, p_terminate, p_msg, p_waiting, frame,
                         timeVars, halted, h_exit, h_arrival>>
          /\ retval' = NoRet
          /\ h_woken' = <<>> /\ UNCHANGED guardVars /\ UNCHANGED <<h_fault, h_sleep, p_refs>>

\* chThreadResumeI, called from an interrupt handler.
chThreadResumeI(c, msg) ==
  /\ CanInterrupt
  /\ IF trp[c] = NULL THEN UNCHANGED vars
     ELSE IF p_state[trp[c]] /= CH_STATE_SUSPENDED THEN Halt("chThreadResumeI")
     ELSE LET tp == trp[c] IN
          /\ p_u' = [p_u EXCEPT ![tp] = msg]
          /\ Commit(chSchReadyI(Kernel, tp, p_prio))
          /\ trp' = [trp EXCEPT ![c] = NULL]
          /\ h_wake' = [h_wake EXCEPT ![tp] = msg]
          /\ UNCHANGED <<p_prio, p_realprio, p_terminate, p_msg, p_waiting, frame,
                         timeVars, halted, h_exit, h_arrival>>
          /\ retval' = NoRet
          /\ h_woken' = <<>> /\ UNCHANGED guardVars /\ UNCHANGED <<h_fault, h_sleep, p_refs>>

\* chThreadResumeS: "*trp = NULL; chSchWakeupS(*trp, msg);" hands the null
\* pointer to chSchWakeupS.  What the dereference of the null pointer does
\* is undefined: the system faults, or it goes on with no thread woken.
chThreadResumeS(c, msg) ==
  IF trp[c] = NULL THEN UNCHANGED vars
  ELSE IF p_state[trp[c]] /= CH_STATE_SUSPENDED THEN Halt("chThreadResumeS")
  ELSE /\ trp' = [trp EXCEPT ![c] = NULL]
       /\ halted' \in BOOLEAN
       /\ UNCHANGED <<tcbVars, rlist, currp, frame, timeVars, histVars>>
       /\ retval' = NoRet
       /\ h_woken' = <<>> /\ UNCHANGED guardVars
       /\ h_fault' = IF halted' THEN "chThreadResumeS" ELSE h_fault
       /\ UNCHANGED <<h_sleep, p_refs>>

\* chSysLock(); chThreadResumeS(trp, msg); chSysUnlock();
chThreadResume(c, msg) ==
  /\ CanCall
  /\ chThreadResumeS(c, msg)

\* ----------------------------------------------------------- termination
\* Mutation: "^=" in place of "|=".
TerminateFlag_Mut(flag) == ~flag

\* chThdTerminate: CH_FLAG_TERMINATE after "tp->p_flags |= CH_FLAG_TERMINATE".
TerminateFlag(flag) == flag \/ TRUE

\* chSysLock(); tp->p_flags |= CH_FLAG_TERMINATE; chSysUnlock();
chThdTerminate(tp) ==
  /\ CanCall
  /\ tp \in Created
  /\ p_terminate' = [p_terminate EXCEPT ![tp] = TerminateFlag(p_terminate[tp])]
  /\ UNCHANGED <<p_state, p_prio, p_realprio, p_u, p_msg, p_waiting, rlist, currp, trp,
                 frame, timeVars, halted, histVars>>
  /\ retval' = NoRet
  /\ h_woken' = <<>> /\ UNCHANGED guardVars /\ UNCHANGED <<h_fault, h_sleep, p_refs>>

chThdYield ==
  /\ CanCall
  /\ Commit(chSchDoYieldS(Kernel, p_prio))
  /\ UNCHANGED <<p_prio, p_realprio, p_terminate, p_u, p_msg, p_waiting, trp, frame,
                 timeVars, halted, histVars>>
  /\ retval' = NoRet
  /\ h_woken' = <<>> /\ UNCHANGED guardVars /\ UNCHANGED <<h_fault, h_sleep, p_refs>>

\* Mutation: the waiters are taken from the wrong end.
RECURSIVE Reverse(_)
Reverse(sq) == IF sq = <<>> THEN <<>> ELSE Append(Reverse(Tail(sq)), Head(sq))
ExitWakeOrder_Mut(tl) == Reverse(tl)

\* Mutation: "if" in place of "while": only the first waiter is readied.
ExitWakeOrder_If(tl) ==
  IF list_notempty(tl) THEN <<list_remove_thread(tl)>> ELSE <<>>

\* Mutation: the loop over the waiters is missing.
ExitWakeOrder_None(tl) == <<>>

\* The order in which chThdExitS takes the waiters off p_waiting.
RECURSIVE ExitWakeOrder(_)
ExitWakeOrder(tl) ==
  IF list_notempty(tl)
  THEN <<list_remove_thread(tl)>> \o ExitWakeOrder(list_remove_rest(tl))
  ELSE <<>>

\* What the loop of chThdExitS leaves in p_waiting.
RECURSIVE ExitWaitersLeft(_)
ExitWaitersLeft(tl) ==
  IF list_notempty(tl) THEN ExitWaitersLeft(list_remove_rest(tl)) ELSE tl

\* chSchReadyI on each of them, in that order.
RECURSIVE ReadyAll(_, _, _)
ReadyAll(K, order, prio) ==
  IF order = <<>> THEN K
  ELSE ReadyAll(chSchReadyI(K, Head(order), prio), Tail(order), prio)

\* Mutation: the exiting thread is left as if it had been suspended.
ExitState_Mut == CH_STATE_SUSPENDED

\* Mutation: the exiting thread is left as if it had just been created.
ExitState_Start == CH_STATE_WTSTART

\* chThdExitS: the state the thread takes in its last chSchGoSleepS.
ExitState == CH_STATE_FINAL

\* chSysLock(); chThdExitS(msg);
chThdExit(msg) ==
  /\ CanCall
  /\ LET tp == currp
         order == ExitWakeOrder(p_waiting[tp]) IN
     /\ p_u' = [p_u EXCEPT ![tp] = msg]
     /\ p_waiting' = [p_waiting EXCEPT ![tp] = ExitWaitersLeft(p_waiting[tp])]
     /\ Commit(chSchGoSleepS(ReadyAll(Kernel, order, p_prio), ExitState))
     /\ frame' = [frame EXCEPT ![tp] = [fn |-> "chThdExitS", tp |-> NULL]]
     /\ h_exit' = [h_exit EXCEPT ![tp] = msg]
     /\ h_woken' = order /\ UNCHANGED guardVars /\ UNCHANGED <<h_fault, h_sleep, p_refs>>
     /\ h_arrival' = [h_arrival EXCEPT ![tp] = <<>>]
  /\ UNCHANGED <<p_prio, p_realprio, p_terminate, p_msg, trp, timeVars, halted, h_wake>>
  /\ retval' = NoRet

\* Mutation: the waiter reads its own wake-up message.
WaitResult_Mut(tp) == p_u[currp]

\* The value chThdWait returns: tp->p_u.exitcode.
WaitResult(tp) == p_u[tp]

\* Mutation: the test for an already terminated thread is missing.
WaitMustBlock_Mut(tp) == TRUE

\* chThdWait's test "tp->p_state != CH_STATE_FINAL".
WaitMustBlock(tp) == p_state[tp] /= CH_STATE_FINAL

\* Mutation: the assertion "waiting self" is missing.
WaitSelfCheck_Mut(tp) == TRUE

\* chThdWait: chDbgAssert(tp != currp, "waiting self").
WaitSelfCheck(tp) == tp /= currp

\* chThdWait up to chSchGoSleepS(CH_STATE_WTEXIT), or all of it when tp is Final.
chThdWait(tp) ==
  /\ CanCall
  /\ tp \in Created \ {IdleThread}
  /\ IF ~WaitSelfCheck(tp) THEN Halt("chThdWait")
     ELSE IF WaitMustBlock(tp)
     THEN /\ p_waiting' = [p_waiting EXCEPT ![tp] = list_insert(currp, p_waiting[tp])]
          /\ Commit(chSchGoSleepS(Kernel, CH_STATE_WTEXIT))
          /\ frame' = [frame EXCEPT ![currp] = [fn |-> "chThdWait", tp |-> tp]]
          /\ h_arrival' = [h_arrival EXCEPT ![tp] = Append(h_arrival[tp], currp)]
          /\ UNCHANGED <<p_prio, p_realprio, p_terminate, p_u, p_msg, trp, timeVars,
                         halted, h_exit, h_wake>>
          /\ retval' = NoRet
          /\ h_woken' = <<>> /\ UNCHANGED guardVars /\ UNCHANGED <<h_fault, h_sleep, p_refs>>
     ELSE /\ retval' = [thd |-> currp, fn |-> "chThdWait", tp |-> tp, blk |-> FALSE,
                          val |-> WaitResult(tp)]
          /\ UNCHANGED <<tcbVars, rlist, currp, trp, frame, timeVars, halted, histVars>>
          /\ h_woken' = <<>> /\ UNCHANGED guardVars /\ UNCHANGED <<h_fault, h_sleep, p_refs>>

\* chThdWait after chSchGoSleepS: msg = tp->p_u.exitcode; return msg.
chThdWait_return ==
  /\ ~halted
  /\ frame[currp].fn = "chThdWait"
  /\ retval' = [thd |-> currp, fn |-> "chThdWait", tp |-> frame[currp].tp, blk |-> TRUE,
                  val |-> WaitResult(frame[currp].tp)]
  /\ frame' = [frame EXCEPT ![currp] = NoFrame]
  /\ UNCHANGED <<tcbVars, rlist, currp, trp, timeVars, halted, histVars>>
  /\ h_woken' = <<>> /\ UNCHANGED guardVars /\ UNCHANGED <<h_fault, h_sleep, p_refs>>

\* ---------------------------------------------- join, CH_CFG_USE_DYNAMIC
\* chThdWait: chDbgAssert(tp->p_refs > 0, "not referenced").
RefsCheck(tp) == p_refs[tp] > 0

\* chThdWait in a build with CH_CFG_USE_DYNAMIC, up to chSysUnlock() when
\* tp is Final and up to chSchGoSleepS(CH_STATE_WTEXIT) when it is not.
\* chThdRelease(tp) follows outside the critical section.
chThdWaitDyn(tp) ==
  /\ CanCall
  /\ tp \in Created \ {IdleThread}
  /\ IF ~WaitSelfCheck(tp) THEN Halt("chThdWait")
     ELSE IF ~RefsCheck(tp) THEN Halt("chThdWait:p_refs")
     ELSE IF WaitMustBlock(tp)
     THEN /\ p_waiting' = [p_waiting EXCEPT ![tp] = list_insert(currp, p_waiting[tp])]
          /\ Commit(chSchGoSleepS(Kernel, CH_STATE_WTEXIT))
          /\ frame' = [frame EXCEPT ![currp] = [fn |-> "chThdWait", tp |-> tp]]
          /\ h_arrival' = [h_arrival EXCEPT ![tp] = Append(h_arrival[tp], currp)]
          /\ UNCHANGED <<p_prio, p_realprio, p_terminate, p_u, p_msg, trp, timeVars,
                         halted, h_exit, h_wake>>
          /\ retval' = NoRet
          /\ h_woken' = <<>> /\ UNCHANGED guardVars /\ UNCHANGED <<h_fault, h_sleep, p_refs>>
     ELSE /\ retval' = [thd |-> currp, fn |-> "chThdWait", tp |-> tp, blk |-> FALSE,
                          val |-> WaitResult(tp)]
          /\ frame' = [frame EXCEPT ![currp] = [fn |-> "chThdRelease", tp |-> tp]]
          /\ UNCHANGED <<tcbVars, rlist, currp, trp, timeVars, halted, histVars>>
          /\ h_woken' = <<>> /\ UNCHANGED guardVars /\ UNCHANGED <<h_fault, h_sleep, p_refs>>

\* chThdWait after chSchGoSleepS: msg = tp->p_u.exitcode; chSysUnlock();
chThdWaitDyn_return ==
  /\ ~halted
  /\ frame[currp].fn = "chThdWait"
  /\ retval' = [thd |-> currp, fn |-> "chThdWait", tp |-> frame[currp].tp, blk |-> TRUE,
                  val |-> WaitResult(frame[currp].tp)]
  /\ frame' = [frame EXCEPT ![currp] = [fn |-> "chThdRelease", tp |-> frame[currp].tp]]
  /\ UNCHANGED <<tcbVars, rlist, currp, trp, timeVars, halted, histVars>>
  /\ h_woken' = <<>> /\ UNCHANGED guardVars /\ UNCHANGED <<h_fault, h_sleep, p_refs>>

\* chThdRelease(tp), the last statement of chThdWait: one reference less.
\* The threads of this module are static: no storage is given back.
chThdRelease ==
  /\ ~halted
  /\ frame[currp].fn = "chThdRelease"
  /\ p_refs' = [p_refs EXCEPT ![frame[currp].tp] = p_refs[frame[currp].tp] - 1]
  /\ frame' = [frame EXCEPT ![currp] = NoFrame]
  /\ UNCHANGED <<tcbVars, rlist, currp, trp, timeVars, halted, histVars>>
  /\ retval' = NoRet
  /\ h_woken' = <<>> /\ UNCHANGED guardVars /\ UNCHANGED <<h_fault, h_sleep>>

\* ------------------------------------------------------------ preemption
\* Interrupt epilogue: a ready thread of higher priority takes the CPU.
Preempt ==
  /\ CanInterrupt
  /\ chSchIsRescRequiredI(Kernel, p_prio)
  /\ Commit(chSchDoRescheduleAhead(Kernel, p_prio))
  /\ UNCHANGED <<p_prio, p_realprio, p_terminate, p_u, p_msg, p_waiting, trp, frame,
                 timeVars, halted, histVars>>
  /\ retval' = NoRet
  /\ h_woken' = <<>> /\ UNCHANGED guardVars /\ UNCHANGED <<h_fault, h_sleep, p_refs>>

\* ------------------------------------------------------------ timed sleep
\* chThdSleepS(time) = chSchGoSleepTimeoutS(CH_STATE_SLEEPING, time): a timer
\* of time ticks is armed unless time is TIME_INFINITE.  fn is the caller.
chThdSleepS(time, fn) ==
  IF time = TIME_IMMEDIATE THEN Halt("chThdSleepS")
  ELSE /\ vtdelta' = [vtdelta EXCEPT ![currp] = IF time = TIME_INFINITE THEN NULL ELSE time]
       /\ Commit(chSchGoSleepS(Kernel, CH_STATE_SLEEPING))
       /\ frame' = [frame EXCEPT ![currp] = [fn |-> fn, tp |-> NULL]]
       /\ h_sleep' = IF fn = "chThdSleep"
                     THEN [h_sleep EXCEPT ![currp] =
                             [until |-> (systime + time) % TimeMod,
                              finite |-> time /= TIME_INFINITE]]
                     ELSE h_sleep
       /\ UNCHANGED <<p_prio, p_realprio, p_terminate, p_u, p_msg, p_waiting, trp,
                      systime, halted, histVars>>
       /\ retval' = NoRet
       /\ h_woken' = <<>> /\ UNCHANGED guardVars /\ UNCHANGED <<h_fault, p_refs>>

\* Mutation: the sleep is one tick longer than asked.
chThdSleep_Mut(time) ==
  /\ CanCall
  /\ chThdSleepS((time + 1) % TimeMod, "chThdSleep")

\* chSysLock(); chThdSleepS(time); chSysUnlock();
chThdSleep(time) ==
  /\ CanCall
  /\ chThdSleepS(time, "chThdSleep")

\* chThdSleepUntil: "time -= chVTGetSystemTimeX()" in systime_t arithmetic.
SleepUntilDelta(time, now) == (time - now) % TimeMod

\* chThdSleepUntil: the test "(time -= chVTGetSystemTimeX()) > 0".
SleepUntilSleeps(time, now) == SleepUntilDelta(time, now) > 0

chThdSleepUntil(time) ==
  /\ CanCall
  /\ IF SleepUntilSleeps(time, systime)
     THEN chThdSleepS(SleepUntilDelta(time, systime), "chThdSleepUntil")
     ELSE UNCHANGED vars

\* chThdSleepS after chSchGoSleepS: the call returns.
chThdSleepS_return ==
  /\ ~halted
  /\ frame[currp].fn \in {"chThdSleep", "chThdSleepUntil"}
  /\ frame' = [frame EXCEPT ![currp] = NoFrame]
  /\ UNCHANGED <<tcbVars, rlist, currp, trp, timeVars, halted, histVars>>
  /\ retval' = NoRet
  /\ h_woken' = <<>> /\ UNCHANGED guardVars /\ UNCHANGED <<h_fault, h_sleep, p_refs>>

\* The orders in which the threads of a set can be taken.
RECURSIVE Orders(_)
Orders(S) ==
  IF S = {} THEN {<<>>}
  ELSE UNION {{<<t>> \o o : o \in Orders(S \ {t})} : t \in S}

\* The system tick: time advances and the timers that expire wake their
\* threads with MSG_TIMEOUT.
Tick ==
  /\ CanInterrupt
  /\ LET due == {t \in Thd : vtdelta[t] = 1} IN
     \E order \in Orders(due) :
       /\ systime' = (systime + 1) % TimeMod
       /\ vtdelta' = [t \in Thd |-> IF vtdelta[t] = NULL \/ vtdelta[t] = 1 THEN NULL
                                    ELSE vtdelta[t] - 1]
       /\ p_u' = [t \in Thd |-> IF t \in due THEN MSG_TIMEOUT ELSE p_u[t]]
       /\ Commit(ReadyAll(Kernel, order, p_prio))
       /\ h_sleep' = [t \in Thd |-> IF h_sleep[t].until = (systime + 1) % TimeMod
                                    THEN NoSleep ELSE h_sleep[t]]
  /\ UNCHANGED <<p_prio, p_realprio, p_terminate, p_msg, p_waiting, trp, frame, halted,
                 histVars>>
  /\ retval' = NoRet
  /\ h_woken' = <<>> /\ UNCHANGED guardVars /\ UNCHANGED <<h_fault, p_refs>>

\* ------------------------------------------------- critical sections
\* The operations of each API function on the guard, in the order of its
\* code: "lock" is chSysLock(), "unlock" chSysUnlock(), "write" a write of
\* a thread field, a waiters list or a cell, "resched" a scheduler call that
\* can switch to another thread and comes back (chSchWakeupS,
\* chSchRescheduleS, chSchDoYieldS), "sleep" chSchGoSleepS with a blocked
\* state, "final" chSchGoSleepS(CH_STATE_FINAL), "fill" the _thread_memfill
\* of CH_DBG_FILL_THREADS over a working area that holds no thread yet.
GuardPrograms ==
  [chThdCreateStatic |-> <<"fill", "lock", "write", "resched", "unlock">>,
   chThdStart |-> <<"lock", "write", "unlock">>,
   chThdSetPriority |-> <<"lock", "write", "resched", "unlock">>,
   chThreadResume |-> <<"lock", "write", "resched", "unlock">>,
   chThdTerminate |-> <<"lock", "write", "unlock">>,
   chThdSleep |-> <<"lock", "sleep", "unlock">>,
   chThdSleepUntil |-> <<"lock", "sleep", "unlock">>,
   chThdSleepUntilPast |-> <<"lock", "unlock">>,
   chThdYield |-> <<"lock", "resched", "unlock">>,
   chThdWait |-> <<"lock", "write", "sleep", "unlock">>,
   chThdWaitFinal |-> <<"lock", "unlock">>,
   chThdExit |-> <<"lock", "write", "final">>]

GuardApis == DOMAIN GuardPrograms

\* Mutation: chThdTerminate sets the flag without the guard.
GuardProgram_Mut(api) ==
  IF api = "chThdTerminate" THEN <<"write">> ELSE GuardPrograms[api]

GuardProgram(api) == GuardPrograms[api]

\* The thread the guard machine has running.
GuardRunning == CHOOSE t \in Thd : gst[t] = "run"

\* The next operation of the thread at pos.
GuardOp(pos) ==
  IF pos.api = "none" THEN "none" ELSE GuardProgram(pos.api)[pos.pc]

\* The position after the operation at pos: the function returns after its
\* last operation.
GuardAdvance(pos) ==
  IF pos.pc = Len(GuardProgram(pos.api)) THEN NoPos ELSE [pos EXCEPT !.pc = pos.pc + 1]

\* The thread at pos was switched out inside a scheduler call of its own
\* critical section and goes on inside that section when switched in.
GuardInside(pos) ==
  /\ pos.api /= "none" /\ pos.pc > 1
  /\ GuardProgram(pos.api)[pos.pc - 1] \in {"resched", "sleep"}

\* The switch to thread u: a thread that was preempted, or that runs for
\* the first time, has the guard released for it by the code that ends the
\* switch; a thread switched out inside its critical section keeps it.
GuardSwitch(r, st, u, held) ==
  /\ gst' = [gst EXCEPT ![r] = st, ![u] = "run"]
  /\ guard' = (held /\ GuardInside(gpos[u]))

GuardOk == ~halted /\ gfault = NoFault

\* The running thread calls an API function.
GuardCall(api) ==
  /\ GuardOk
  /\ GuardRunning /= IdleThread
  /\ gpos[GuardRunning] = NoPos
  /\ api = "chThdCreateStatic" => \E t \in Thd : gst[t] = "none"
  /\ gpos' = [gpos EXCEPT ![GuardRunning] = [api |-> api, pc |-> 1]]
  /\ UNCHANGED <<guard, gst, gfault, kernelVars>>

\* _thread_memfill: the bytes of a working area in which no thread has been
\* initialised; no field of a thread, no waiters list and no cell is written.
GuardFill ==
  /\ GuardOk
  /\ GuardOp(gpos[GuardRunning]) = "fill"
  /\ gpos' = [gpos EXCEPT ![GuardRunning] = GuardAdvance(gpos[GuardRunning])]
  /\ UNCHANGED <<guard, gst, gfault, kernelVars>>

\* chSysLock(): with the checks enabled, a lock inside a lock halts.
GuardLock ==
  /\ GuardOk
  /\ GuardOp(gpos[GuardRunning]) = "lock"
  /\ IF guard
     THEN gfault' = "lock" /\ UNCHANGED <<guard, gpos>>
     ELSE /\ guard' = TRUE
          /\ gpos' = [gpos EXCEPT ![GuardRunning] = GuardAdvance(gpos[GuardRunning])]
          /\ UNCHANGED gfault
  /\ UNCHANGED <<gst, kernelVars>>

\* A write of a thread field, of a waiters list or of a cell; that of
\* chThdCreateStatic makes a new thread, Ready.
GuardWrite ==
  /\ GuardOk
  /\ GuardOp(gpos[GuardRunning]) = "write"
  /\ gfault' = IF guard THEN gfault ELSE "write"
  /\ gpos' = [gpos EXCEPT ![GuardRunning] = GuardAdvance(gpos[GuardRunning])]
  /\ gst' = IF gpos[GuardRunning].api = "chThdCreateStatic"
            THEN [gst EXCEPT ![CHOOSE t \in Thd : gst[t] = "none"] = "ready"]
            ELSE gst
  /\ UNCHANGED <<guard, kernelVars>>

\* chSysUnlock().
GuardUnlock ==
  /\ GuardOk
  /\ GuardOp(gpos[GuardRunning]) = "unlock"
  /\ gfault' = IF guard THEN gfault ELSE "unlock"
  /\ guard' = FALSE
  /\ gpos' = [gpos EXCEPT ![GuardRunning] = GuardAdvance(gpos[GuardRunning])]
  /\ UNCHANGED <<gst, kernelVars>>

\* A scheduler call that switches to a ready thread, or to none.
GuardResched ==
  /\ GuardOk
  /\ GuardOp(gpos[GuardRunning]) = "resched"
  /\ gpos' = [gpos EXCEPT ![GuardRunning] = GuardAdvance(gpos[GuardRunning])]
  /\ \/ UNCHANGED <<gst, guard>>
     \/ \E u \in Thd : gst[u] = "ready" /\ GuardSwitch(GuardRunning, "ready", u, guard)
  /\ UNCHANGED <<gfault, kernelVars>>

\* chSchGoSleepS with a blocked state: the first ready thread runs.
GuardSleep ==
  /\ GuardOk
  /\ GuardOp(gpos[GuardRunning]) = "sleep"
  /\ gpos' = [gpos EXCEPT ![GuardRunning] = GuardAdvance(gpos[GuardRunning])]
  /\ \E u \in Thd : gst[u] = "ready" /\ GuardSwitch(GuardRunning, "blocked", u, guard)
  /\ UNCHANGED <<gfault, kernelVars>>

\* chSchGoSleepS(CH_STATE_FINAL): the thread keeps its position for ever.
GuardFinal ==
  /\ GuardOk
  /\ GuardOp(gpos[GuardRunning]) = "final"
  /\ \E u \in Thd : gst[u] = "ready" /\ GuardSwitch(GuardRunning, "final", u, guard)
  /\ UNCHANGED <<gpos, gfault, kernelVars>>

\* An interrupt, taken with the guard free, whose epilogue switches to a
\* ready thread.  The running thread is between two API functions.
GuardPreempt ==
  /\ GuardOk
  /\ ~guard
  /\ gpos[GuardRunning] = NoPos
  /\ \E u \in Thd : gst[u] = "ready" /\ GuardSwitch(GuardRunning, "ready", u, TRUE)
  /\ UNCHANGED <<gpos, gfault, kernelVars>>

\* An interrupt, taken with the guard free, that readies a blocked thread.
GuardWake(t) ==
  /\ GuardOk
  /\ ~guard
  /\ gst[t] = "blocked"
  /\ gst' = [gst EXCEPT ![t] = "ready"]
  /\ UNCHANGED <<guard, gpos, gfault, kernelVars>>

NextGuard ==
  \/ \E api \in GuardApis : GuardCall(api)
  \/ GuardFill
  \/ GuardLock
  \/ GuardWrite
  \/ GuardUnlock
  \/ GuardResched
  \/ GuardSleep
  \/ GuardFinal
  \/ GuardPreempt
  \/ \E t \in Thd : GuardWake(t)

\* ------------------------------------------------------------------ Next
AppThreads == Thd \ {IdleThread}
\* The priorities the callers pass: the legal ones and one above HIGHPRIO.
PrioArgs == 2..(HIGHPRIO + 1)
NewPrioArgs == IDLEPRIO..(HIGHPRIO + 1)
\* The arguments the callers of the creation functions pass: the valid
\* ones with each priority, and the valid ones with one of them replaced
\* by the null pointer or by a size below the minimum.
CreateArgs ==
  LET ok == [wsp |-> WorkingArea, size |-> THD_WA_SIZE_0, prio |-> IDLEPRIO + 1,
             pf |-> ThreadFn] IN
  {[ok EXCEPT !.prio = prio] : prio \in PrioArgs}
    \cup {[ok EXCEPT !.wsp = NULL], [ok EXCEPT !.size = THD_WA_SIZE_0 - 1],
          [ok EXCEPT !.pf = NULL]}

\* The steps every configuration has: creation, the Scheduler, returns.
NextBase ==
  \/ \E a \in CreateArgs : chThdCreateStatic(a.wsp, a.size, a.prio, a.pf)
  \/ chThdYield
  \/ Preempt

NextCreate ==
  \/ \E a \in CreateArgs : chThdCreateI(a.wsp, a.size, a.prio, a.pf)
  \/ \E tp \in AppThreads : chThdStart(tp)

NextJoin ==
  \/ \E msg \in Msgs : chThdExit(msg)
  \/ \E tp \in AppThreads : chThdWait(tp)
  \/ chThdWait_return

NextJoinDyn ==
  \/ \E msg \in Msgs : chThdExit(msg)
  \/ \E tp \in AppThreads : chThdWaitDyn(tp)
  \/ chThdWaitDyn_return
  \/ chThdRelease

NextTerminate ==
  \E tp \in AppThreads : chThdTerminate(tp)

NextSuspend ==
  \/ \E c \in Cells : chThreadSuspendS(c)
  \/ chThreadSuspendS_return
  \/ \E c \in Cells, msg \in Msgs : chThreadResumeI(c, msg)
  \/ \E c \in Cells, msg \in Msgs : chThreadResume(c, msg)

NextPrio ==
  \/ \E newprio \in NewPrioArgs : chThdSetPriority(newprio)
  \/ \E tp \in AppThreads : MtxBoost(tp)
  \/ MtxUnboost

NextTime ==
  \/ \E time \in Times : chThdSleepUntil(time)
  \/ chThdSleepS_return
  \/ Tick

NextSleep ==
  \/ \E time \in Times : chThdSleep(time)
  \/ chThdSleepS_return
  \/ Tick

\* Creation, start, exit and join.
Next == NextBase \/ NextCreate \/ NextJoin
Spec == Init /\ [][Next]_vars

\* Creation, start, exit and join under fair scheduling: a running thread
\* that is back from chSchGoSleepS goes on to its return, an interrupt that
\* made a higher thread Ready ends in the switch to it, and no thread keeps
\* the processor for ever: the running thread ends in chThdExit.
Fairness ==
  /\ WF_vars(chThdWait_return)
  /\ WF_vars(Preempt)
  /\ WF_vars(\E msg \in Msgs : chThdExit(msg))
SpecFair == Spec /\ Fairness

\* Suspend and resume on the thread reference cells.
SpecSuspend ==
  Init /\ [][NextBase \/ NextSuspend \/ NextJoin \/ NextTerminate
             \/ (\E newprio \in PrioArgs : chThdSetPriority(newprio))]_vars

\* Priority management.
SpecPrio == Init /\ [][NextBase \/ NextCreate \/ NextPrio]_vars

\* Sleep until a time.
SpecTime == Init /\ [][NextBase \/ NextTime]_vars

\* Sleep for a duration.
SpecSleep == Init /\ [][NextBase \/ NextSleep]_vars

\* Creation, start, exit and join in a build with CH_CFG_USE_DYNAMIC.
SpecDynamic == Init /\ [][NextBase \/ NextCreate \/ NextJoinDyn]_vars

\* The critical sections of the API functions.
SpecGuard == Init /\ [][NextGuard]_vars

\* Join with termination requests.
SpecTerminate == Init /\ [][NextBase \/ NextCreate \/ NextJoin \/ NextTerminate]_vars

\* The whole life of a thread: creation, join, suspension and timed sleep,
\* with one cell, one message value, sleeps of one or two ticks, and
\* termination requests on the threads that have already terminated.
LifeCells == {1}
LifeTimes == {1, 2}
LifeMsgs == {RDY_OK}
NextLife ==
  \/ \E msg \in LifeMsgs : chThdExit(msg)
  \/ \E tp \in AppThreads : chThdWait(tp)
  \/ chThdWait_return
  \/ \E c \in LifeCells : chThreadSuspendS(c)
  \/ chThreadSuspendS_return
  \/ \E c \in LifeCells, msg \in LifeMsgs : chThreadResumeI(c, msg)
  \/ \E c \in LifeCells, msg \in LifeMsgs : chThreadResume(c, msg)
  \/ \E time \in LifeTimes : chThdSleep(time)
  \/ chThdSleepS_return
  \/ Tick
  \/ \E tp \in AppThreads : p_state[tp] = CH_STATE_FINAL /\ chThdTerminate(tp)
SpecLife == Init /\ [][NextBase \/ NextCreate \/ NextLife]_vars

\* ================================================================ claims
InReady(t) == t \in SeqToSet(rlist)
InReadyNext(t) == t \in SeqToSet(rlist')
Count(sq, t) == Cardinality({i \in 1..Len(sq) : sq[i] = t})
Pos(sq, t) == CHOOSE i \in 1..Len(sq) : sq[i] = t

\* C1: a thread made by chThdCreateI is in CH_STATE_WTSTART and outside the
\* ready list, and a thread in CH_STATE_WTSTART stays so, outside the ready
\* list and not running, in every step that is not chThdStart on it.
C1_CreatedAwaitsStart ==
  [][\A t \in Thd :
       /\ (p_state[t] = CH_STATE_NONE
             /\ (\E a \in CreateArgs : chThdCreateI(a.wsp, a.size, a.prio, a.pf))
             /\ p_state'[t] /= CH_STATE_NONE)
          => (p_state'[t] = CH_STATE_WTSTART /\ ~InReadyNext(t) /\ currp' /= t)
       /\ p_state[t] = CH_STATE_WTSTART
          => /\ ~InReady(t) /\ currp /= t
             /\ (p_state'[t] /= CH_STATE_WTSTART \/ InReadyNext(t) \/ currp' = t)
                => chThdStart(t)]_vars

\* C1 witness: a thread still awaits its start after another thread has
\* been created, started, run and terminated.
C1_Witness ==
  \E t, u \in AppThreads :
    /\ p_state[t] = CH_STATE_WTSTART /\ ~InReady(t)
    /\ u > t /\ p_state[u] = CH_STATE_FINAL

\* C2: every return of chThdWait(T) gives the code T passed to chThdExit, T
\* being Final; a thread inside chThdWait(T) is blocked and queued on T
\* while T is not Final, and once T is Final it is ready or running exactly
\* once, with its return still to come.
C2_WaitersGetExitCode ==
  /\ retval.fn = "chThdWait"
       => p_state[retval.tp] = CH_STATE_FINAL /\ retval.val = h_exit[retval.tp]
  /\ \A w \in Thd :
       frame[w].fn = "chThdWait" =>
         IF p_state[frame[w].tp] = CH_STATE_FINAL
         THEN /\ p_state[w] \in {CH_STATE_READY, CH_STATE_CURRENT}
              /\ Count(rlist, w) + (IF currp = w THEN 1 ELSE 0) = 1
              /\ Count(p_waiting[frame[w].tp], w) = 0
         ELSE /\ p_state[w] = CH_STATE_WTEXIT
              /\ ~InReady(w) /\ currp /= w
              /\ Count(p_waiting[frame[w].tp], w) = 1

\* C2 witness: a waiter that blocked returns the exit code 1 while a second
\* waiter of the same thread has its return still to come.
C2_Witness ==
  /\ retval.fn = "chThdWait" /\ retval.blk /\ retval.val = 1
  /\ \E w \in Thd : w /= retval.thd /\ frame[w] = [fn |-> "chThdWait", tp |-> retval.tp]

\* C3: the exit code of a Final thread is the one it passed to chThdExit and
\* no step changes it; chThdWait on a Final thread returns that code at once,
\* the caller still running.
C3_FinalCodeStable ==
  [][\A t \in AppThreads :
       p_state[t] = CH_STATE_FINAL =>
         /\ p_u[t] = h_exit[t]
         /\ p_u'[t] = p_u[t]
         /\ (chThdWait(t) /\ t /= currp)
            => /\ retval' = [thd |-> currp, fn |-> "chThdWait", tp |-> t, blk |-> FALSE,
                             val |-> h_exit[t]]
               /\ currp' = currp
               /\ p_state' = p_state]_vars

\* C3 witness: a thread gets the code 1 from chThdWait without blocking,
\* while a thread that had blocked in chThdWait on the same thread, woken by
\* the exit, has its return still to come.
C3_Witness ==
  /\ retval.fn = "chThdWait" /\ ~retval.blk /\ retval.val = 1
  /\ \E w \in Thd : w /= retval.thd /\ frame[w] = [fn |-> "chThdWait", tp |-> retval.tp]

C4_ResumeAsResumeI ==
  [][\A c \in Cells, msg \in Msgs :
       (trp[c] /= NULL /\ p_state[trp[c]] = CH_STATE_SUSPENDED /\ chThreadResume(c, msg))
       => /\ trp'[c] = NULL
          /\ p_state'[trp[c]] \in {CH_STATE_READY, CH_STATE_CURRENT}
          /\ p_u'[trp[c]] = msg]_vars

\* C5: a Suspended thread leaves CH_STATE_SUSPENDED in exactly the steps
\* that are a chThreadResume or chThreadResumeI on the cell that holds it:
\* no other step wakes it, and such a call does wake it.
C5_WokenByMatchingResume ==
  [][\A t \in AppThreads :
       p_state[t] = CH_STATE_SUSPENDED =>
         ((p_state'[t] /= CH_STATE_SUSPENDED)
            <=> \E c \in Cells, msg \in Msgs :
                  trp[c] = t /\ (chThreadResumeI(c, msg) \/ chThreadResume(c, msg)))]_vars

\* C6: the value chThreadSuspendS returns is the message of the resume
\* that woke the thread.
C6_SuspendReturnsPayload ==
  [][(frame[currp].fn = "chThreadSuspendS" /\ retval'.fn = "chThreadSuspendS")
       => retval'.val = h_wake[currp]]_vars

\* C7: chThdSetPriority with a legal priority never lowers the effective
\* priority of a caller boosted above its base priority, and the base
\* priority is the new priority after every call.
C7_BoostKept ==
  [][\A newprio \in NewPrioArgs :
       (newprio <= HIGHPRIO /\ chThdSetPriority(newprio))
       => /\ p_prio[currp] > p_realprio[currp] => p_prio'[currp] >= p_prio[currp]
          /\ p_realprio'[currp] = newprio]_vars

\* C7 witness: a call has left its caller with a base priority below the
\* effective one: the boost outlived the call.
C7_Witness ==
  /\ retval.fn = "chThdSetPriority"
  /\ p_realprio[retval.thd] < p_prio[retval.thd]
  /\ retval.val /= p_realprio[retval.thd]

\* C8: chThdSetPriority returns the base priority the caller had before
\* the call, whatever its effective priority.
C8_ReturnsOldBase ==
  [][\A newprio \in NewPrioArgs :
       (newprio <= HIGHPRIO /\ chThdSetPriority(newprio))
       => retval' = [thd |-> currp, fn |-> "chThdSetPriority", tp |-> NULL, blk |-> FALSE,
                     val |-> p_realprio[currp]]]_vars

\* C8 witness: a call by a boosted thread returned a base priority lower
\* than the effective priority the caller had and still has.
C8_Witness ==
  /\ retval.fn = "chThdSetPriority"
  /\ retval.val < p_realprio[retval.thd]
  /\ p_realprio[retval.thd] < p_prio[retval.thd]

\* A time not after now: it is now, or less than half the range behind it.
PastOrNow(time, now) == (now - time) % TimeMod < TimeMod \div 2

\* C9: chThdSleepUntil with a time that is now or already past returns at
\* once: the caller does not sleep and no timer is armed.
C9_PastReturnsAtOnce ==
  [][\A time \in Times :
       (PastOrNow(time, systime) /\ chThdSleepUntil(time))
       => /\ p_state'[currp] /= CH_STATE_SLEEPING
          /\ currp' = currp
          /\ vtdelta' = vtdelta]_vars

\* C11: the thread that calls chThdExit becomes Final in that step; a Final
\* thread is neither in the ready list nor running, and no step changes its
\* state, readies it or dispatches it, so the code after the last
\* chSchGoSleepS of chThdExitS is never executed.
C11_FinalAbsorbing ==
  [][\A t \in Thd :
       /\ (currp = t /\ p_state'[t] /= CH_STATE_FINAL)
          => ~\E msg \in Msgs : chThdExit(msg)
       /\ frame[t].fn = "chThdExitS" => p_state[t] = CH_STATE_FINAL
       /\ p_state[t] = CH_STATE_FINAL
          => /\ ~InReady(t) /\ currp /= t
             /\ p_state'[t] = CH_STATE_FINAL /\ ~InReadyNext(t) /\ currp' /= t]_vars

\* C11 witness: a thread is Final after a termination request on it, a
\* chThdWait on it that returned at once, the exit of another thread and
\* two ticks of the timer.
C11_Witness ==
  \E t, u \in AppThreads :
    /\ t /= u /\ p_state[t] = CH_STATE_FINAL /\ p_state[u] = CH_STATE_FINAL
    /\ p_terminate[t]
    /\ retval.fn = "chThdWait" /\ retval.tp = t /\ ~retval.blk
    /\ systime >= 2

\* The times t is ready or running: once for a thread that can be dispatched.
ReadyCount(rl, cur, t) == Count(rl, t) + (IF cur = t THEN 1 ELSE 0)

\* C12: the step in which T becomes Final takes every thread out of T's
\* waiters and leaves each of them Ready (or running) and exactly once in
\* the ready list; so a Final thread has no waiters and no thread is in
\* CH_STATE_WTEXIT inside a chThdWait on a Final thread.
C12_WaitersReadiedOnce ==
  /\ [](\A t \in Thd :
         p_state[t] = CH_STATE_FINAL =>
           /\ p_waiting[t] = <<>>
           /\ \A w \in Thd :
                ~(p_state[w] = CH_STATE_WTEXIT /\ frame[w] = [fn |-> "chThdWait", tp |-> t]))
  /\ [][\A t \in Thd :
         (p_state[t] /= CH_STATE_FINAL /\ p_state'[t] = CH_STATE_FINAL) =>
           \A w \in Thd :
             IF w \in SeqToSet(p_waiting[t])
             THEN /\ p_state[w] = CH_STATE_WTEXIT /\ ReadyCount(rlist, currp, w) = 0
                  /\ p_state'[w] \in {CH_STATE_READY, CH_STATE_CURRENT}
                  /\ ReadyCount(rlist', currp', w) = 1
                  /\ Count(p_waiting'[t], w) = 0
             ELSE ReadyCount(rlist', currp', w) =
                    ReadyCount(rlist, currp, w) - (IF w = t THEN 1 ELSE 0)]_vars

\* C12 witness: an exit has readied its two waiters and the hand-off has
\* dispatched one of them, its chThdWait still to return.
C12_Witness ==
  /\ Len(h_woken) = 2
  /\ currp \in SeqToSet(h_woken)
  /\ frame[currp].fn = "chThdWait"
  /\ p_state[frame[currp].tp] = CH_STATE_FINAL
  /\ \E w \in SeqToSet(h_woken) : w /= currp /\ p_state[w] = CH_STATE_READY

\* C13: chThdTerminate(tp) sets the termination flag of tp and changes
\* nothing else: no state, priority, base priority, waiters list, message,
\* ready list, running thread, cell or timer; and no step clears the flag.
C13_TerminateOnlySetsFlag ==
  [][/\ \A tp \in AppThreads :
          chThdTerminate(tp) =>
            /\ p_terminate' = [p_terminate EXCEPT ![tp] = TRUE]
            /\ UNCHANGED <<p_state, p_prio, p_realprio, p_u, p_msg, p_waiting, rlist,
                           currp, trp, frame, timeVars, halted>>
     /\ \A t \in Thd : p_terminate[t] => p_terminate'[t]]_vars

\* C13 witness: termination has been requested of a thread that is still
\* blocked in chThdWait, of one that is still Ready and of the thread that
\* is running.
C13_Witness ==
  /\ \E t \in AppThreads : p_terminate[t] /\ p_state[t] = CH_STATE_WTEXIT
  /\ \E t \in AppThreads : p_terminate[t] /\ p_state[t] = CH_STATE_READY
  /\ p_terminate[currp] /\ currp /= IdleThread

\* The edges of the thread state machine.
Edges ==
  {<<CH_STATE_NONE, CH_STATE_WTSTART>>, <<CH_STATE_WTSTART, CH_STATE_READY>>,
   <<CH_STATE_READY, CH_STATE_CURRENT>>, <<CH_STATE_CURRENT, CH_STATE_READY>>,
   <<CH_STATE_CURRENT, CH_STATE_SUSPENDED>>, <<CH_STATE_CURRENT, CH_STATE_SLEEPING>>,
   <<CH_STATE_CURRENT, CH_STATE_WTEXIT>>, <<CH_STATE_CURRENT, CH_STATE_FINAL>>,
   <<CH_STATE_SUSPENDED, CH_STATE_READY>>, <<CH_STATE_SLEEPING, CH_STATE_READY>>,
   <<CH_STATE_WTEXIT, CH_STATE_READY>>}

\* C14: in every step the state of every thread stays or changes along an
\* edge of the state machine.  Two edges are taken within one critical
\* section only by chThdCreateStatic (created, then woken and possibly
\* dispatched) and by chThdExit (a waiter readied, then dispatched by the
\* hand-off).  chThdStart on a thread not in CH_STATE_WTSTART, a resume on a
\* cell whose thread is not Suspended and chThreadSuspendS on a cell in use
\* halt the system and change no state.
C14_OnlyEdges ==
  [][/\ \A t \in Thd :
          \/ p_state'[t] = p_state[t]
          \/ <<p_state[t], p_state'[t]>> \in Edges
          \/ /\ p_state[t] = CH_STATE_NONE
             /\ p_state'[t] \in {CH_STATE_READY, CH_STATE_CURRENT}
             /\ \E a \in CreateArgs : chThdCreateStatic(a.wsp, a.size, a.prio, a.pf)
          \/ /\ p_state[t] = CH_STATE_WTEXIT /\ p_state'[t] = CH_STATE_CURRENT
             /\ t \in SeqToSet(p_waiting[currp])
             /\ \E msg \in Msgs : chThdExit(msg)
     /\ \A tp \in AppThreads :
          (p_state[tp] \notin {CH_STATE_NONE, CH_STATE_WTSTART}
             /\ ~(halted' /\ p_state' = p_state /\ rlist' = rlist))
          => ~chThdStart(tp)
     /\ \A c \in Cells :
          (trp[c] /= NULL /\ p_state[trp[c]] /= CH_STATE_SUSPENDED
             /\ ~(halted' /\ p_state' = p_state /\ rlist' = rlist))
          => ~\E msg \in Msgs : chThreadResumeI(c, msg) \/ chThreadResume(c, msg)
     /\ \A c \in Cells :
          (trp[c] /= NULL /\ ~(halted' /\ p_state' = p_state /\ rlist' = rlist))
          => ~chThreadSuspendS(c)]_vars

\* C14 witness: chThdStart on a thread that was not awaiting its start has
\* halted the system, with one thread Final and one Suspended or sleeping.
C14_Witness ==
  /\ halted /\ h_fault = "chThdStart"
  /\ \E t \in AppThreads : p_state[t] = CH_STATE_FINAL
  /\ \E t \in AppThreads : p_state[t] \in {CH_STATE_SUSPENDED, CH_STATE_SLEEPING}

\* What C15 asks of the sleeps in the set D of durations: chThdSleep(d)
\* at time T puts the caller to sleep until T+d; a thread asleep in
\* chThdSleep with its sleep still to end is neither ready nor running, and
\* stays so in every step but the tick that brings the time to T+d; that
\* tick readies it, once, and leaves it no timer; no thread is ever ready
\* or running twice.
SleepKept(D) ==
  /\ \A d \in D :
       chThdSleep(d) =>
         /\ p_state'[currp] = CH_STATE_SLEEPING
         /\ ReadyCount(rlist', currp', currp) = 0
         /\ h_sleep'[currp].until = (systime + d) % TimeMod
  /\ \A t \in Thd :
       /\ ReadyCount(rlist', currp', t) <= 1
       /\ (frame[t].fn = "chThdSleep" /\ h_sleep[t].until /= NULL
             /\ \E d \in D : h_sleep[t].finite = (d /= TIME_INFINITE))
          => /\ p_state[t] = CH_STATE_SLEEPING /\ ReadyCount(rlist, currp, t) = 0
             /\ IF systime' = h_sleep[t].until
                THEN /\ Tick
                     /\ p_state'[t] = CH_STATE_READY
                     /\ ReadyCount(rlist', currp', t) = 1
                     /\ vtdelta'[t] = NULL
                ELSE /\ p_state'[t] = CH_STATE_SLEEPING
                     /\ ReadyCount(rlist', currp', t) = 0

\* C15 as stated: every duration above zero.
C15_SleepsExactly == [][SleepKept(Times \ {TIME_IMMEDIATE})]_vars

\* C15 amended: every duration above zero but TIME_INFINITE, with which
\* chThdSleep arms no timer and the thread sleeps until something else
\* wakes it.
C15_SleepsExactlyFinite == [][SleepKept(Times \ {TIME_IMMEDIATE, TIME_INFINITE})]_vars

\* C15 witness: a tick has just ended a sleep of more than one tick and
\* readied the thread, while another thread is still asleep.
C15_Witness ==
  \E t, u \in AppThreads :
    /\ t /= u
    /\ frame[t].fn = "chThdSleep" /\ p_state[t] = CH_STATE_READY
    /\ h_sleep[t] = NoSleep /\ p_u[t] = MSG_TIMEOUT
    /\ frame[u].fn = "chThdSleep" /\ p_state[u] = CH_STATE_SLEEPING
    /\ h_sleep[u].finite /\ systime >= 2

\* C16: chThdStart on a thread in CH_STATE_WTSTART makes it Ready and puts
\* it in the ready list, where it was not, once; chThdStart on a thread in
\* any other state, a second chThdStart included, halts the system and
\* leaves the ready list as it was; no thread is ever in the ready list
\* twice.
C16_StartOnce ==
  [][/\ \A tp \in AppThreads :
          chThdStart(tp) =>
            IF p_state[tp] = CH_STATE_WTSTART
            THEN /\ Count(rlist, tp) = 0
                 /\ p_state'[tp] = CH_STATE_READY
                 /\ Count(rlist', tp) = 1
                 /\ halted' = halted
            ELSE /\ halted' /\ h_fault' = "chThdStart"
                 /\ rlist' = rlist /\ p_state' = p_state /\ currp' = currp
     /\ \A t \in Thd : ReadyCount(rlist', currp', t) <= 1]_vars

\* C16 witness: a second chThdStart has halted the system; the thread of
\* the first one is Ready, once in the ready list, and not yet dispatched
\* although its priority is above that of the running thread, which only
\* chThdStart, having no reschedule, leaves behind.
C16_Witness ==
  /\ halted /\ h_fault = "chThdStart"
  /\ \E t \in AppThreads :
       /\ p_state[t] = CH_STATE_READY /\ Count(rlist, t) = 1
       /\ p_prio[t] > p_prio[currp]

\* C17: chThdWait on the calling thread itself, and chThdWait on a thread
\* whose reference counter is zero, halt the system and leave every state
\* and every waiters list as it was; no thread is ever in its own waiters
\* list or in CH_STATE_WTEXIT inside a chThdWait on itself.
C17_WaitSelfFatal ==
  /\ [](\A t \in Thd :
         /\ Count(p_waiting[t], t) = 0
         /\ ~(p_state[t] = CH_STATE_WTEXIT /\ frame[t] = [fn |-> "chThdWait", tp |-> t]))
  /\ [][\A tp \in AppThreads :
         (chThdWaitDyn(tp) /\ (tp = currp \/ p_refs[tp] = 0))
         => (halted' /\ p_state' = p_state /\ p_waiting' = p_waiting
               /\ rlist' = rlist /\ currp' = currp)]_vars

\* C17 witness: chThdWait on a thread whose only reference an earlier
\* chThdWait has released has halted the system.
C17_Witness ==
  /\ halted /\ h_fault = "chThdWait:p_refs"
  /\ \E t \in AppThreads : p_state[t] = CH_STATE_FINAL /\ p_refs[t] = 0

\* C18: a creation with the null pointer for the working area, with a size
\* below THD_WA_SIZE(0) or with a priority above HIGHPRIO halts the system:
\* it creates no thread and returns nothing.  No step has an outcome
\* between the two: a step that halts the system changes no thread and
\* returns nothing, and a step that returns a value returns a message or a
\* priority and leaves the system running.
C18_ViolationsAreFatal ==
  [][/\ \A a \in CreateArgs :
          ((chThdCreateI(a.wsp, a.size, a.prio, a.pf)
              \/ chThdCreateStatic(a.wsp, a.size, a.prio, a.pf))
             /\ (a.wsp = NULL \/ a.size < THD_WA_SIZE_0 \/ a.prio > HIGHPRIO))
          => /\ halted' /\ h_fault' \in {"chThdCreateI", "chThdCreateStatic"}
             /\ retval' = NoRet
             /\ UNCHANGED <<tcbVars, rlist, currp>>
     /\ (halted' /\ ~halted) => (retval' = NoRet /\ UNCHANGED <<tcbVars, rlist, currp>>)
     /\ retval'.fn /= "none" => (~halted' /\ retval'.val \in Msgs \cup Prios)]_vars

\* C18 witness: chThdCreateI has halted the system after two threads were
\* created, one of them Final by now, and the third slot is still unused.
C18_Witness ==
  /\ halted /\ h_fault = "chThdCreateI"
  /\ \E t \in AppThreads : p_state[t] = CH_STATE_FINAL
  /\ p_state[MaxThreads] = CH_STATE_NONE

\* The thread t waits for, NULL if it is not blocked in chThdWait.
WaitsFor(t) ==
  IF p_state[t] = CH_STATE_WTEXIT /\ frame[t].fn = "chThdWait" THEN frame[t].tp ELSE NULL

\* The thread reached from t by following WaitsFor n times.
RECURSIVE WaitsForN(_, _)
WaitsForN(t, n) ==
  IF t = NULL \/ n = 0 THEN t ELSE WaitsForN(WaitsFor(t), n - 1)

\* C19: no thread is in a circle of threads each blocked in chThdWait on
\* the next one.
C19_NoWaitCycle ==
  \A t \in Thd : \A n \in 1..MaxThreads : WaitsForN(t, n) /= t

\* The thread at pos is between the chSysLock() and the chSysUnlock() of
\* its API function.
GuardWithin(pos) ==
  /\ pos.api /= "none"
  /\ \E i \in 1..(pos.pc - 1) :
       /\ GuardProgram(pos.api)[i] = "lock"
       /\ \A j \in (i + 1)..(pos.pc - 1) : GuardProgram(pos.api)[j] /= "unlock"

\* C20: no write is done without the guard, chSysLock() never finds the
\* guard held and chSysUnlock() never finds it free; the guard is held
\* exactly while the running thread is between the chSysLock() and the
\* chSysUnlock() of an API function, so it is free whenever a function has
\* returned; a thread that is not running and not Final is between two
\* functions or inside the scheduler call of its critical section; a Final
\* thread never left chThdExit.
C20_GuardDiscipline ==
  /\ gfault = NoFault
  /\ guard <=> GuardWithin(gpos[GuardRunning])
  /\ \A t \in Thd :
       /\ gst[t] = "final" <=> (gst[t] /= "run" /\ GuardOp(gpos[t]) = "final")
       /\ gst[t] \in {"ready", "blocked"} => (gpos[t] = NoPos \/ GuardInside(gpos[t]))
       /\ gst[t] = "blocked" => GuardInside(gpos[t])

\* C20 witness: the guard is held by a thread switched in inside its
\* chThdWait, with its chSysUnlock() still to come, while one thread is
\* Final and another was switched out inside chThdYield.
C20_Witness ==
  /\ guard
  /\ gpos[GuardRunning].api = "chThdWait" /\ GuardOp(gpos[GuardRunning]) = "unlock"
  /\ \E t \in Thd : gst[t] = "final"
  /\ \E t \in Thd : gst[t] = "ready" /\ gpos[t].api = "chThdYield"

\* C21: chThreadResumeI on a cell that holds a Suspended thread leaves the
\* running thread running, whatever the priority of the woken thread: the
\* woken thread becomes Ready and is put in the ready list, and nothing
\* else in the ready list moves.
C21_ResumeIKeepsRunning ==
  [][\A c \in Cells :
       (trp[c] /= NULL /\ trp'[c] = NULL /\ p_state[trp[c]] = CH_STATE_SUSPENDED
          /\ \E msg \in Msgs : chThreadResumeI(c, msg))
       => /\ currp' = currp
          /\ p_state'[currp] = CH_STATE_CURRENT
          /\ p_state'[trp[c]] = CH_STATE_READY
          /\ Count(rlist', trp[c]) = 1
          /\ Remove(rlist', trp[c]) = rlist]_vars

\* C21 witness: a thread woken by chThreadResumeI is Ready, not yet back in
\* chThreadSuspendS, with a priority above that of the running thread.
C21_Witness ==
  \E t \in AppThreads :
    /\ p_state[t] = CH_STATE_READY
    /\ frame[t].fn = "chThreadSuspendS"
    /\ h_wake[t] /= NULL
    /\ p_prio[t] > p_prio[currp]
    /\ ~halted

\* C22: chThdSetPriority(n) with a legal n, by a caller of base priority b
\* and effective priority e >= b, leaves the effective priority n when
\* e = b, n when n > e, and e when the caller is boosted (e > b) and
\* n <= e.
C22_EffectivePriority ==
  [][\A newprio \in NewPrioArgs :
       (newprio <= HIGHPRIO /\ p_prio[currp] >= p_realprio[currp]
          /\ chThdSetPriority(newprio))
       => /\ p_prio[currp] = p_realprio[currp] => p_prio'[currp] = newprio
          /\ newprio > p_prio[currp] => p_prio'[currp] = newprio
          /\ (p_prio[currp] > p_realprio[currp] /\ newprio <= p_prio[currp])
               => p_prio'[currp] = p_prio[currp]]_vars

\* C22 witness: a caller that was not boosted has lowered its priority (the
\* base priority returned is above the effective priority it has now), while
\* another thread is boosted.
C22_Witness ==
  /\ retval.fn = "chThdSetPriority"
  /\ retval.val > p_prio[retval.thd]
  /\ p_prio[retval.thd] = p_realprio[retval.thd]
  /\ \E t \in AppThreads : t /= retval.thd /\ p_state[t] /= CH_STATE_NONE
                            /\ p_prio[t] > p_realprio[t]

CellsOf(t) == {c \in Cells : trp[c] = t}

\* C24: while the system runs, a cell that is not empty holds a thread that
\* is in CH_STATE_SUSPENDED, and a thread in CH_STATE_SUSPENDED is held by
\* exactly one cell.
C24_CellIffSuspended ==
  ~halted =>
    /\ \A c \in Cells : trp[c] /= NULL => p_state[trp[c]] = CH_STATE_SUSPENDED
    /\ \A t \in Thd : p_state[t] = CH_STATE_SUSPENDED => Cardinality(CellsOf(t)) = 1

\* C25: in a build with CH_CFG_USE_DYNAMIC the reference count of a thread
\* is never below zero, and every chThdWait that returns reads the exit
\* code of a thread whose reference count is above zero.
C25_ReadsWhileReferenced ==
  /\ [](\A t \in Thd : p_refs[t] >= 0)
  /\ [][(retval'.fn = "chThdWait" /\ frame' /= frame) => p_refs[retval'.tp] > 0]_vars

\* C26: the effective priority of every thread is at least its base
\* priority: it is so when the thread is created, and chThdSetPriority,
\* called with any priority, legal or not, leaves it so for its caller.
C26_PrioAtLeastBase ==
  /\ [](\A t \in Thd : p_state[t] /= CH_STATE_NONE => p_prio[t] >= p_realprio[t])
  /\ [][\A tp \in AppThreads :
         (p_state[tp] = CH_STATE_NONE /\ p_state'[tp] /= CH_STATE_NONE)
         => p_prio'[tp] = p_realprio'[tp]]_vars
  /\ [][\A newprio \in NewPrioArgs :
         (p_prio'[currp] < p_realprio'[currp]) => ~chThdSetPriority(newprio)]_vars

\* C26 witness: a boosted thread has lowered its base priority with
\* chThdSetPriority and keeps its boost, next to a thread just as created.
C26_Witness ==
  /\ retval.fn = "chThdSetPriority"
  /\ retval.val > p_realprio[retval.thd]
  /\ p_prio[retval.thd] > retval.val
  /\ \E t \in AppThreads : t /= retval.thd /\ p_state[t] /= CH_STATE_NONE
                            /\ p_prio[t] = p_realprio[t]

\* C27: chThdSleepUntil returns at once or sleeps with a timer armed: the
\* duration it passes to chThdSleepS is neither TIME_IMMEDIATE, which halts,
\* nor TIME_INFINITE, which arms no timer.
C27_SleepUntilFinite ==
  [][\A time \in Times :
       (~(halted' = halted /\ p_state'[currp] = CH_STATE_SLEEPING
            /\ vtdelta'[currp] \in Times \ {TIME_IMMEDIATE, TIME_INFINITE})
          /\ chThdSleepUntil(time))
       => UNCHANGED vars]_vars

====
